---- MODULE Spec2Model ----
(***************************************************************************)
(* GETdns.py: a batch of URLs is resolved to IP addresses by a bounded     *)
(* thread pool, every returned address is counted in a shared Counter      *)
(* under a lock, and the addresses counted more than twice are written to  *)
(* a report.                                                               *)
(*                                                                         *)
(* The model follows the program statement by statement: main's phases,    *)
(* the pool of process_url tasks, query_dns's retry loop with its AAAA     *)
(* fallback, and the critical section in which `output_counter[ip] += 1`   *)
(* is a read followed by a write.  The DNS library, the file system and    *)
(* the console are the environment: each lookup, each file operation and   *)
(* (in SpecConsole) each console write picks its outcome freely.           *)
(***************************************************************************)
EXTENDS Integers, Sequences, FiniteSets, Bags, TLC

(***************************************************************************)
(* Bounds of the model.                                                    *)
(***************************************************************************)
\* the input file holds at most MaxUrls lines
MaxUrls == 2
\* a line handed to clean_url on its own is made of at most MaxPieces pieces
MaxPieces == 2
\* a snapshot handed to the report writer on its own counts up to MaxCount
MaxCount == 4
\* the report writer is called at most MaxRuns times on one snapshot
MaxRuns == 2

(***************************************************************************)
(* Program constants.                                                      *)
(***************************************************************************)
\* one attempt more than the program makes
retries_plus_one == 5 + 1

\* query_dns(domain, retries=5, delay=2)
retries == 5
delay == 2
\* parser.add_argument('-t', '--threads', type=int, default=100)
default_threads == 100
\* write_sorted_output: if count > 2
threshold == 2

Tasks == 1..MaxUrls

\* a file left at args.output by an earlier run
OldReport == << <<"9.9.9.9", 7>> >>

Min(a, b) == IF a <= b THEN a ELSE b
Max(a, b) == IF a >= b THEN a ELSE b

(***************************************************************************)
(* Strings the program inspects are sequences of characters.               *)
(***************************************************************************)
HTTP == <<"h", "t", "t", "p", ":", "/", "/">>
HTTPS == <<"h", "t", "t", "p", "s", ":", "/", "/">>

HasPrefix(s, p) == Len(s) >= Len(p) /\ SubSeq(s, 1, Len(p)) = p

RECURSIVE clean_url_repeated(_)
\* the scheme removed as long as the string starts with one
clean_url_repeated(url) ==
  IF HasPrefix(url, HTTPS) THEN clean_url_repeated(SubSeq(url, Len(HTTPS) + 1, Len(url)))
  ELSE IF HasPrefix(url, HTTP) THEN clean_url_repeated(SubSeq(url, Len(HTTP) + 1, Len(url)))
  ELSE url

\* re.sub(r'^https?://', '', url): the pattern is anchored at the start of
\* the string, so at most one match, the leading scheme, is removed.
clean_url(url) ==
  IF HasPrefix(url, HTTPS) THEN SubSeq(url, Len(HTTPS) + 1, Len(url))
  ELSE IF HasPrefix(url, HTTP) THEN SubSeq(url, Len(HTTP) + 1, Len(url))
  ELSE url

\* the lines of two input files (already stripped by main); a file of the
\* model is one of these cut to at most MaxUrls lines
ACN == <<"a", ".", "c", "n">>
BCN == <<"b", ".", "c", "n">>
File1 == <<HTTP \o ACN, HTTPS \o ACN, ACN, ACN>>
File2 == <<BCN, ACN, HTTP \o BCN, BCN>>
Files == {File1, File2}

UrlLists == { SubSeq(f, 1, Min(n, Len(f))) : f \in Files, n \in 0..MaxUrls }

\* values of --threads: negative, zero, one, two, and the default
ThreadArgs == {-1, 0, 1, 2, default_threads}

\* what the resolver library may answer
IPs == {"1.1.1.1", "2.2.2.2", "::1"}
AAnswers == { <<"1.1.1.1">>, <<"1.1.1.1", "2.2.2.2">> }
AAAAAnswers == { <<"::1">> }
\* failures of a lookup other than NoAnswer, and all failures of the fallback
OtherErrors == {"Timeout", "NXDOMAIN", "NoNameservers"}
AAAAErrors == OtherErrors \cup {"NoAnswer"}

VARIABLES
  mpc,            \* main's position; "exit0", "exit1" and "crash:..." end it
  threads,        \* args.threads
  urls,           \* the lines read from args.file
  max_threads,    \* the size the pool was created with (0: no pool)
  tpc,            \* each task's position in process_url / query_dns
  domain,         \* process_url's domain
  attempt,        \* query_dns's loop variable
  nA, nAAAA,      \* lookups made by the running query_dns call
  slept,          \* time the running query_dns call has spent in time.sleep
  a_records,      \* what query_dns returned to process_url
  idx,            \* position of `for ip in a_records`
  stmt,           \* position inside the loop body
  tmp,            \* the count read by `output_counter[ip] += 1`
  failed,         \* the task ended in process_url's except clause
  recorded,       \* increments the task has stored
  logged,         \* log lines the task has printed
  lock,           \* the task holding threading.Lock (0: free)
  output_counter, \* Counter: address -> count
  keys,           \* the Counter's keys in the order they were inserted
  console,        \* bag of the lines written to standard output
  outdir,         \* the directory of args.output: "missing" or "present"
  report,         \* the lines of the file at args.output
  writes          \* calls of write_sorted_output that have returned

tvars == <<tpc, domain, attempt, nA, nAAAA, slept, a_records, idx, stmt, tmp,
           failed, recorded, logged>>
fsvars == <<outdir, report, writes>>
mvars == <<mpc, threads, urls, max_threads, outdir, report, writes>>
shared == <<lock, output_counter, keys>>
vars == <<mpc, threads, urls, max_threads, tpc, domain, attempt, nA, nAAAA,
          slept, a_records, idx, stmt, tmp, failed, recorded, logged, lock,
          output_counter, keys, console, outdir, report, writes>>

\* the log line first, the increment after it
BodyLogFirst == <<"print", "read", "write">>

\* the statements of the loop body, lines 44 and 45
Body == <<"read", "write", "print">>

LogLine(d, ip) == <<"log", d, ip>>
Message(m) == <<"msg", <<>>, m>>

Say(line) == console' = console (+) SetToBag({line})

NTasks == Len(urls)
\* tasks a worker thread is running
Active == { t \in Tasks : tpc[t] \notin {"none", "queued", "done"} }

Init ==
  /\ mpc = "load"
  /\ threads \in ThreadArgs
  /\ urls = <<>>
  /\ max_threads = 0
  /\ tpc = [t \in Tasks |-> "none"]
  /\ domain = [t \in Tasks |-> <<>>]
  /\ attempt = [t \in Tasks |-> 0]
  /\ nA = [t \in Tasks |-> 0]
  /\ nAAAA = [t \in Tasks |-> 0]
  /\ slept = [t \in Tasks |-> 0]
  /\ a_records = [t \in Tasks |-> <<>>]
  /\ idx = [t \in Tasks |-> 0]
  /\ stmt = [t \in Tasks |-> 0]
  /\ tmp = [t \in Tasks |-> 0]
  /\ failed = [t \in Tasks |-> FALSE]
  /\ recorded = [t \in Tasks |-> 0]
  /\ logged = [t \in Tasks |-> 0]
  /\ lock = 0
  /\ output_counter = [ip \in IPs |-> 0]
  /\ keys = <<>>
  /\ console = EmptyBag
  /\ outdir \in {"missing", "present"}
  /\ report = OldReport
  /\ writes = 0

(***************************************************************************)
(* write_sorted_output's computation                                       *)
(***************************************************************************)
\* output_counter.items(): (ip, count) pairs in insertion order
Items(counter, ks) == [i \in 1..Len(ks) |-> <<ks[i], counter[ks[i]]>>]

\* one step of the sort without reverse=True: ascending
InsertAsc(s, it) ==
  LET k == Cardinality({ i \in 1..Len(s) : s[i][2] <= it[2] })
  IN SubSeq(s, 1, k) \o <<it>> \o SubSeq(s, k + 1, Len(s))

\* one step of a stable sort by count, descending: the item goes behind
\* every item whose count is not smaller
InsertDesc(s, it) ==
  LET k == Cardinality({ i \in 1..Len(s) : s[i][2] >= it[2] })
  IN SubSeq(s, 1, k) \o <<it>> \o SubSeq(s, k + 1, Len(s))

RECURSIVE SortDesc(_)
\* line 73: sorted(items, key=lambda x: x[1], reverse=True)
SortDesc(items) ==
  IF items = <<>> THEN <<>>
  ELSE InsertDesc(SortDesc(SubSeq(items, 1, Len(items) - 1)), items[Len(items)])

\* the threshold taken as the smallest count reported
QualifiesFromThreshold(item) == item[2] >= threshold

\* line 77: if count > 2
Qualifies(item) == item[2] > threshold

\* lines 73-78: the lines written for a snapshot of the counter
ReportLines(counter, ks) == SelectSeq(SortDesc(Items(counter, ks)), Qualifies)

(***************************************************************************)
(* main                                                                    *)
(***************************************************************************)
\* lines 91-93: the file is read
LoadOk ==
  /\ mpc = "load"
  /\ \E list \in UrlLists : urls' = list
  /\ mpc' = "mkdir"
  /\ UNCHANGED <<threads, max_threads, fsvars, tvars, shared, console>>

\* lines 94-95 without sys.exit(1): main goes on with no urls
LoadFailContinues ==
  /\ mpc = "load"
  /\ Say(Message("read failed"))
  /\ mpc' = "mkdir"
  /\ UNCHANGED <<threads, urls, max_threads, fsvars, tvars, shared>>

\* lines 94-96: the file cannot be read
LoadFail ==
  /\ mpc = "load"
  /\ Say(Message("read failed"))
  /\ mpc' = "exit1"
  /\ UNCHANGED <<threads, urls, max_threads, fsvars, tvars, shared>>

\* lines 64-67, called at line 99: the directory is there or is made
EnsureDirOk ==
  /\ mpc = "mkdir"
  /\ outdir' = "present"
  /\ mpc' = "pool"
  /\ UNCHANGED <<threads, urls, max_threads, report, writes, tvars, shared, console>>

\* line 67: os.makedirs raises, and nothing in main catches it
EnsureDirRaise ==
  /\ mpc = "mkdir"
  /\ outdir = "missing"
  /\ mpc' = "crash:OSError"
  /\ UNCHANGED <<threads, urls, max_threads, fsvars, tvars, shared, console>>

\* line 51
PoolSize(given, count) == Min(given, count)

\* lines 51-53: ThreadPoolExecutor(max_workers) raises ValueError when
\* max_workers <= 0; the error leaves process_urls_concurrently and main
CreatePool ==
  /\ mpc = "pool"
  /\ IF PoolSize(threads, NTasks) <= 0
       THEN /\ mpc' = "crash:ValueError"
            /\ UNCHANGED max_threads
       ELSE /\ max_threads' = PoolSize(threads, NTasks)
            /\ mpc' = "submit"
  /\ UNCHANGED <<threads, urls, fsvars, tvars, shared, console>>

\* line 55: one executor.submit per url, in the order of the list
Submit(t) ==
  /\ mpc = "submit"
  /\ t \in 1..NTasks
  /\ tpc[t] = "none"
  /\ \A u \in 1..(t - 1) : tpc[u] # "none"
  /\ tpc' = [tpc EXCEPT ![t] = "queued"]
  /\ mpc' = IF t = NTasks THEN "wait" ELSE "submit"
  /\ UNCHANGED <<threads, urls, max_threads, fsvars, domain, attempt, nA, nAAAA,
                 slept, a_records, idx, stmt, tmp, failed, recorded, logged,
                 shared, console>>

\* the first finished task ends the wait
AnyDone == \E t \in 1..NTasks : tpc[t] = "done"

\* every submitted task is in a terminal state
AllDone == \A t \in 1..NTasks : tpc[t] = "done"

\* lines 57-61 and the end of the with block (shutdown(wait=True))
AwaitAll ==
  /\ mpc = "wait"
  /\ AllDone
  /\ mpc' = "write"
  /\ UNCHANGED <<threads, urls, max_threads, fsvars, tvars, shared, console>>

\* the lines added behind what the file held
AppendedFile(old, lines) == old \o lines

\* line 74: open(output_file, 'w') empties the file before the lines go in
WrittenFile(old, lines) == lines

\* lines 70-78: the file is opened with 'w' and the lines are written
WriteOk ==
  /\ mpc = "write"
  /\ report' = WrittenFile(report, ReportLines(output_counter, keys))
  /\ writes' = writes + 1
  /\ mpc' = "finish"
  /\ UNCHANGED <<threads, urls, max_threads, outdir, tvars, shared, console>>

\* lines 79-80: open raised (the file is as it was) or a write raised (the
\* file holds the lines written before it)
WriteFail ==
  /\ mpc = "write"
  /\ LET lines == ReportLines(output_counter, keys)
     IN report' \in {report} \cup
          { WrittenFile(report, SubSeq(lines, 1, k)) : k \in 0..(Len(lines) - 1) }
  /\ writes' = writes + 1
  /\ Say(Message("write failed"))
  /\ mpc' = "finish"
  /\ UNCHANGED <<threads, urls, max_threads, outdir, tvars, shared>>

\* lines 112-114
Finish ==
  /\ mpc = "finish"
  /\ Say(Message("finished"))
  /\ mpc' = "exit0"
  /\ UNCHANGED <<threads, urls, max_threads, fsvars, tvars, shared>>

(***************************************************************************)
(* process_url and query_dns, run by a pool thread                         *)
(***************************************************************************)
\* a pool thread takes the oldest queued task; lines 38-39 and 20
Start(t) ==
  /\ tpc[t] = "queued"
  /\ \A u \in 1..(t - 1) : tpc[u] # "queued"
  /\ Cardinality(Active) < max_threads
  /\ tpc' = [tpc EXCEPT ![t] = "A"]
  /\ domain' = [domain EXCEPT ![t] = clean_url(urls[t])]
  /\ attempt' = [attempt EXCEPT ![t] = 0]
  /\ UNCHANGED <<mvars, nA, nAAAA, slept, a_records, idx, stmt, tmp, failed,
                 recorded, logged, lock, output_counter, keys, console>>

\* lines 23-24: the A lookup answers
ALookupOk(t) ==
  /\ tpc[t] = "A"
  /\ nA' = [nA EXCEPT ![t] = @ + 1]
  /\ \E ips \in AAnswers : a_records' = [a_records EXCEPT ![t] = ips]
  /\ tpc' = [tpc EXCEPT ![t] = "ret"]
  /\ UNCHANGED <<mvars, domain, attempt, nAAAA, slept, idx, stmt, tmp, failed,
                 recorded, logged, lock, output_counter, keys, console>>

\* lines 23, 25: the A lookup raises NoAnswer
ANoAnswer(t) ==
  /\ tpc[t] = "A"
  /\ nA' = [nA EXCEPT ![t] = @ + 1]
  /\ tpc' = [tpc EXCEPT ![t] = "AAAA"]
  /\ UNCHANGED <<mvars, domain, attempt, nAAAA, slept, a_records, idx, stmt, tmp,
                 failed, recorded, logged, lock, output_counter, keys, console>>

\* lines 23, 31: the A lookup raises anything else
AError(t) ==
  /\ tpc[t] = "A"
  /\ \E e \in OtherErrors : TRUE
  /\ nA' = [nA EXCEPT ![t] = @ + 1]
  /\ tpc' = [tpc EXCEPT ![t] = "sleep"]
  /\ UNCHANGED <<mvars, domain, attempt, nAAAA, slept, a_records, idx, stmt, tmp,
                 failed, recorded, logged, lock, output_counter, keys, console>>

\* lines 32, 20, 33: time.sleep(delay), then the next iteration of the loop,
\* or `return []` when range(retries) is used up
Sleep(t) ==
  /\ tpc[t] = "sleep"
  /\ slept' = [slept EXCEPT ![t] = @ + delay]
  /\ IF attempt[t] + 1 < retries
       THEN /\ attempt' = [attempt EXCEPT ![t] = @ + 1]
            /\ tpc' = [tpc EXCEPT ![t] = "A"]
            /\ UNCHANGED a_records
       ELSE /\ a_records' = [a_records EXCEPT ![t] = <<>>]
            /\ tpc' = [tpc EXCEPT ![t] = "ret"]
            /\ UNCHANGED attempt
  /\ UNCHANGED <<mvars, domain, nA, nAAAA, idx, stmt, tmp, failed, recorded,
                 logged, lock, output_counter, keys, console>>

\* lines 27-28: the AAAA lookup answers
AAAALookupOk(t) ==
  /\ tpc[t] = "AAAA"
  /\ nAAAA' = [nAAAA EXCEPT ![t] = @ + 1]
  /\ \E ips \in AAAAAnswers : a_records' = [a_records EXCEPT ![t] = ips]
  /\ tpc' = [tpc EXCEPT ![t] = "ret"]
  /\ UNCHANGED <<mvars, domain, attempt, nA, slept, idx, stmt, tmp, failed,
                 recorded, logged, lock, output_counter, keys, console>>

\* the fallback's failure handled as line 31 handles the A lookup's
AAAAFailRetried(t) ==
  /\ tpc[t] = "AAAA"
  /\ \E e \in AAAAErrors : TRUE
  /\ nAAAA' = [nAAAA EXCEPT ![t] = @ + 1]
  /\ tpc' = [tpc EXCEPT ![t] = "sleep"]
  /\ UNCHANGED <<mvars, domain, attempt, nA, slept, a_records, idx, stmt, tmp,
                 failed, recorded, logged, lock, output_counter, keys, console>>

\* lines 27, 29-30: the AAAA lookup raises, NoAnswer included
AAAAFail(t) ==
  /\ tpc[t] = "AAAA"
  /\ \E e \in AAAAErrors : TRUE
  /\ nAAAA' = [nAAAA EXCEPT ![t] = @ + 1]
  /\ a_records' = [a_records EXCEPT ![t] = <<>>]
  /\ tpc' = [tpc EXCEPT ![t] = "ret"]
  /\ UNCHANGED <<mvars, domain, attempt, nA, slept, idx, stmt, tmp, failed,
                 recorded, logged, lock, output_counter, keys, console>>

\* query_dns returns (its frame is gone) and line 40 tests the result
Return(t) ==
  /\ tpc[t] = "ret"
  /\ attempt' = [attempt EXCEPT ![t] = 0]
  /\ nA' = [nA EXCEPT ![t] = 0]
  /\ nAAAA' = [nAAAA EXCEPT ![t] = 0]
  /\ slept' = [slept EXCEPT ![t] = 0]
  /\ tpc' = [tpc EXCEPT ![t] = IF a_records[t] # <<>> THEN "lock" ELSE "done"]
  /\ UNCHANGED <<mvars, domain, a_records, idx, stmt, tmp, failed, recorded,
                 logged, lock, output_counter, keys, console>>

\* line 42 without the lock: the loop is entered whoever holds it
AcquireUnlocked(t) ==
  /\ tpc[t] = "lock"
  /\ lock' = t
  /\ tpc' = [tpc EXCEPT ![t] = "cs"]
  /\ idx' = [idx EXCEPT ![t] = 1]
  /\ stmt' = [stmt EXCEPT ![t] = 1]
  /\ UNCHANGED <<mvars, domain, attempt, nA, nAAAA, slept, a_records, tmp,
                 failed, recorded, logged, output_counter, keys, console>>

\* line 42: with lock
Acquire(t) ==
  /\ tpc[t] = "lock"
  /\ lock = 0
  /\ lock' = t
  /\ tpc' = [tpc EXCEPT ![t] = "cs"]
  /\ idx' = [idx EXCEPT ![t] = 1]
  /\ stmt' = [stmt EXCEPT ![t] = 1]
  /\ UNCHANGED <<mvars, domain, attempt, nA, nAAAA, slept, a_records, tmp,
                 failed, recorded, logged, output_counter, keys, console>>

\* the statement after the one just executed: the next of the body, the
\* body of the next address, or the end of the with block
Advance(t) ==
  IF stmt[t] < Len(Body)
    THEN /\ stmt' = [stmt EXCEPT ![t] = @ + 1]
         /\ UNCHANGED <<idx, tpc>>
    ELSE IF idx[t] < Len(a_records[t])
      THEN /\ stmt' = [stmt EXCEPT ![t] = 1]
           /\ idx' = [idx EXCEPT ![t] = @ + 1]
           /\ UNCHANGED tpc
      ELSE /\ tpc' = [tpc EXCEPT ![t] = "unlock"]
           /\ UNCHANGED <<idx, stmt>>

At(t, s) == tpc[t] = "cs" /\ Body[stmt[t]] = s

\* line 44, first half: the current count of ip is read
IncRead(t) ==
  /\ At(t, "read")
  /\ tmp' = [tmp EXCEPT ![t] = output_counter[a_records[t][idx[t]]]]
  /\ Advance(t)
  /\ UNCHANGED <<mvars, domain, attempt, nA, nAAAA, slept, a_records, failed,
                 recorded, logged, lock, output_counter, keys, console>>

\* line 44, second half: the count plus one is stored
IncWrite(t) ==
  /\ At(t, "write")
  /\ output_counter' = [output_counter EXCEPT ![a_records[t][idx[t]]] = tmp[t] + 1]
  /\ keys' = IF \E i \in 1..Len(keys) : keys[i] = a_records[t][idx[t]]
              THEN keys ELSE Append(keys, a_records[t][idx[t]])
  /\ recorded' = [recorded EXCEPT ![t] = @ + 1]
  /\ Advance(t)
  /\ UNCHANGED <<mvars, domain, attempt, nA, nAAAA, slept, a_records, tmp,
                 failed, logged, lock, console>>

\* the line printed for the first address of a list only
EmitLogFirstOnly(t) ==
  /\ At(t, "print")
  /\ IF idx[t] = 1
       THEN /\ Say(LogLine(domain[t], a_records[t][idx[t]]))
            /\ logged' = [logged EXCEPT ![t] = @ + 1]
       ELSE UNCHANGED <<console, logged>>
  /\ Advance(t)
  /\ UNCHANGED <<mvars, domain, attempt, nA, nAAAA, slept, a_records, tmp,
                 failed, recorded, lock, output_counter, keys>>

\* line 45
EmitLog(t) ==
  /\ At(t, "print")
  /\ Say(LogLine(domain[t], a_records[t][idx[t]]))
  /\ logged' = [logged EXCEPT ![t] = @ + 1]
  /\ Advance(t)
  /\ UNCHANGED <<mvars, domain, attempt, nA, nAAAA, slept, a_records, tmp,
                 failed, recorded, lock, output_counter, keys>>

\* line 45 raises and the lock is not given back
EmitLogRaiseHoldsLock(t) ==
  /\ At(t, "print")
  /\ failed' = [failed EXCEPT ![t] = TRUE]
  /\ tpc' = [tpc EXCEPT ![t] = "done"]
  /\ UNCHANGED <<mvars, domain, attempt, nA, nAAAA, slept, a_records, idx, stmt,
                 tmp, recorded, logged, lock, output_counter, keys, console>>

\* line 45 raises (the console cannot take the line): the with block
\* releases the lock and line 46 swallows the exception
EmitLogRaise(t) ==
  /\ At(t, "print")
  /\ lock' = IF lock = t THEN 0 ELSE lock
  /\ failed' = [failed EXCEPT ![t] = TRUE]
  /\ tpc' = [tpc EXCEPT ![t] = "done"]
  /\ UNCHANGED <<mvars, domain, attempt, nA, nAAAA, slept, a_records, idx, stmt,
                 tmp, recorded, logged, output_counter, keys, console>>

\* the end of the with block, and of process_url
Release(t) ==
  /\ tpc[t] = "unlock"
  /\ lock' = IF lock = t THEN 0 ELSE lock
  /\ tpc' = [tpc EXCEPT ![t] = "done"]
  /\ UNCHANGED <<mvars, domain, attempt, nA, nAAAA, slept, a_records, idx, stmt,
                 tmp, failed, recorded, logged, output_counter, keys, console>>

MainStep ==
  \/ LoadOk \/ LoadFail \/ EnsureDirOk \/ EnsureDirRaise \/ CreatePool
  \/ AwaitAll \/ WriteOk \/ WriteFail \/ Finish

TaskStep(t) ==
  \/ Submit(t) \/ Start(t)
  \/ ALookupOk(t) \/ ANoAnswer(t) \/ AError(t) \/ Sleep(t)
  \/ AAAALookupOk(t) \/ AAAAFail(t) \/ Return(t)
  \/ Acquire(t) \/ IncRead(t) \/ IncWrite(t) \/ EmitLog(t) \/ Release(t)

\* the console takes every line
Next == MainStep \/ \E t \in Tasks : TaskStep(t)

Spec == Init /\ [][Next]_vars

\* the console may refuse a line
NextConsole == Next \/ \E t \in Tasks : EmitLogRaise(t)

SpecConsole == Init /\ [][NextConsole]_vars

\* main and every pool thread keep running: a lookup answers or fails
\* within its lifetime, a sleep ends, a print returns or raises, and a
\* thread waiting for the lock takes it once it stays free
Fairness ==
  /\ WF_vars(MainStep)
  /\ \A t \in Tasks : WF_vars(TaskStep(t) \/ EmitLogRaise(t))

SpecLive == Init /\ [][NextConsole]_vars /\ Fairness

(***************************************************************************)
(* clean_url on its own: process_url started on one line made of schemes,  *)
(* near-schemes and host names                                             *)
(***************************************************************************)
Pieces ==
  { <<>>, HTTP, HTTPS, ACN,
    <<"H", "T", "T", "P", ":", "/", "/">>,
    <<"H", "t", "t", "p", "s", ":", "/", "/">>,
    <<"h", "t", "t", "p", ":", "/">>,
    <<"h", "t", "t", "p", "s">>,
    <<"f", "t", "p", ":", "/", "/">>,
    <<"/">> }

RECURSIVE Concats(_)
\* the lines made of at most n pieces
Concats(n) ==
  IF n = 0 THEN {<<>>} ELSE { p \o q : p \in Pieces, q \in Concats(n - 1) }

\* process_urls_concurrently has submitted the one line of the file
InitClean ==
  /\ mpc = "wait"
  /\ threads = default_threads
  /\ \E u \in Concats(MaxPieces) : urls = <<u>>
  /\ max_threads = 1
  /\ tpc = [t \in Tasks |-> IF t = 1 THEN "queued" ELSE "none"]
  /\ domain = [t \in Tasks |-> <<>>]
  /\ attempt = [t \in Tasks |-> 0]
  /\ nA = [t \in Tasks |-> 0]
  /\ nAAAA = [t \in Tasks |-> 0]
  /\ slept = [t \in Tasks |-> 0]
  /\ a_records = [t \in Tasks |-> <<>>]
  /\ idx = [t \in Tasks |-> 0]
  /\ stmt = [t \in Tasks |-> 0]
  /\ tmp = [t \in Tasks |-> 0]
  /\ failed = [t \in Tasks |-> FALSE]
  /\ recorded = [t \in Tasks |-> 0]
  /\ logged = [t \in Tasks |-> 0]
  /\ lock = 0
  /\ output_counter = [ip \in IPs |-> 0]
  /\ keys = <<>>
  /\ console = EmptyBag
  /\ outdir = "present"
  /\ report = OldReport
  /\ writes = 0

NextClean == \E t \in Tasks : Start(t)

SpecClean == InitClean /\ [][NextClean]_vars

(***************************************************************************)
(* write_sorted_output on its own: any snapshot of the counter, written    *)
(* to the same path up to MaxRuns times                                    *)
(***************************************************************************)
\* the orders in which the addresses of S can have been inserted
Orders(S) ==
  { o \in [1..Cardinality(S) -> S] : \A i, j \in 1..Cardinality(S) : i # j => o[i] # o[j] }

\* main at line 109 with a counter holding any counts
InitReport ==
  /\ mpc = "write"
  /\ threads = default_threads
  /\ urls = <<>>
  /\ max_threads = 0
  /\ tpc = [t \in Tasks |-> "none"]
  /\ domain = [t \in Tasks |-> <<>>]
  /\ attempt = [t \in Tasks |-> 0]
  /\ nA = [t \in Tasks |-> 0]
  /\ nAAAA = [t \in Tasks |-> 0]
  /\ slept = [t \in Tasks |-> 0]
  /\ a_records = [t \in Tasks |-> <<>>]
  /\ idx = [t \in Tasks |-> 0]
  /\ stmt = [t \in Tasks |-> 0]
  /\ tmp = [t \in Tasks |-> 0]
  /\ failed = [t \in Tasks |-> FALSE]
  /\ recorded = [t \in Tasks |-> 0]
  /\ logged = [t \in Tasks |-> 0]
  /\ lock = 0
  /\ output_counter \in [IPs -> 0..MaxCount]
  /\ keys \in Orders({ ip \in IPs : output_counter[ip] > 0 })
  /\ console = EmptyBag
  /\ outdir = "present"
  /\ report = OldReport
  /\ writes = 0

\* write_sorted_output is called once more with the same arguments
CallAgain ==
  /\ mpc = "finish"
  /\ writes < MaxRuns
  /\ mpc' = "write"
  /\ UNCHANGED <<threads, urls, max_threads, fsvars, tvars, shared, console>>

NextReport == WriteOk \/ CallAgain

SpecReport == InitReport /\ [][NextReport]_vars

(***************************************************************************)
(* Properties                                                              *)
(***************************************************************************)
\* process_urls_concurrently has returned to main
Returned == mpc \in {"write", "finish", "exit0"}

\* how often ip occurs in a result list
Occ(ip, list) == Cardinality({ i \in 1..Len(list) : list[i] = ip })

RECURSIVE TotalOcc(_, _)
\* occurrences of ip in the result lists of lines 1..n
TotalOcc(ip, n) ==
  IF n = 0 THEN 0 ELSE TotalOcc(ip, n - 1) + Occ(ip, a_records[n])

RECURSIVE TotalLen(_)
\* the summed lengths of the result lists of lines 1..n
TotalLen(n) == IF n = 0 THEN 0 ELSE TotalLen(n - 1) + Len(a_records[n])

RECURSIVE SumCounts(_)
SumCounts(S) ==
  IF S = {} THEN 0
  ELSE LET ip == CHOOSE x \in S : TRUE
       IN output_counter[ip] + SumCounts(S \ {ip})

PoolStagePassed ==
  mpc \in {"submit", "wait", "write", "finish", "exit0", "crash:ValueError"}

\* C2: for every --threads value (0, negative and larger than the number of
\* domains included) and every number of domains (0 included) the pool is
\* created with exactly max(1, min(given, domain_count)) workers and never
\* more than that many tasks are active.
C2_EffectiveConcurrency ==
  PoolStagePassed =>
    /\ max_threads = Max(1, Min(threads, NTasks))
    /\ Cardinality(Active) <= Max(1, Min(threads, NTasks))

\* the phase main is in: 1 load, 2 resolve and aggregate, 3 write the report
Phase(pc) ==
  CASE pc \in {"load", "mkdir", "exit1", "crash:OSError"} -> 1
    [] pc \in {"pool", "submit", "wait", "crash:ValueError"} -> 2
    [] pc \in {"write", "finish", "exit0"} -> 3

\* C3: the run goes through the phases load, resolve and aggregate, write
\* report in this order, never back, and the second phase never ends the run:
\* for every loaded list (an empty one included) and every --threads value
\* it is left only towards the report.
C3_ThreePhases ==
  [][ /\ Phase(mpc') \in {Phase(mpc), Phase(mpc) + 1}
      /\ (Phase(mpc) = 2 /\ mpc' # mpc) => mpc' \in {"submit", "wait", "write"}
    ]_vars

\* C4: query_dns makes at most 5 A lookups; an A lookup that fails other than
\* by NoAnswer is followed by a sleep of 2 and, while fewer than 5 lookups
\* were made, by the next A lookup; after the fifth such failure query_dns
\* returns the empty list and no exception reaches its caller.
C4_RetryBound ==
  [][ \A t \in Tasks :
        /\ nA'[t] <= 5
        /\ (tpc[t] = "A" /\ tpc'[t] # "A") => nA'[t] = nA[t] + 1
        /\ (tpc[t] = "sleep" /\ tpc'[t] # "sleep") =>
              /\ slept'[t] = slept[t] + 2
              /\ nA'[t] = nA[t]
              /\ nAAAA'[t] = nAAAA[t]
              /\ IF nA[t] < 5
                   THEN tpc'[t] = "A"
                   ELSE /\ tpc'[t] = "ret"
                        /\ a_records'[t] = <<>>
                        /\ ~failed'[t]
    ]_vars

\* query_dns is about to return after five A lookups that all failed
Exhausted(t) ==
  tpc[t] = "ret" /\ nA[t] = 5 /\ nAAAA[t] = 0 /\ a_records[t] = <<>>

C4_Witness == \E t \in Tasks : Exhausted(t) /\ ~failed[t]

\* C5: an A lookup answered NoAnswer, on any attempt, is followed at once
\* (no sleep) by one AAAA lookup, whose list is returned if it answers and
\* the empty list if it fails in any way; no lookup follows it, whatever
\* number of A attempts is left.
C5_NoAnswerFallback ==
  [][ \A t \in Tasks :
        /\ (tpc[t] = "A" /\ tpc'[t] = "AAAA") =>
              slept'[t] = slept[t] /\ nAAAA[t] = 0 /\ nAAAA'[t] = 0
        /\ (tpc[t] = "AAAA" /\ tpc'[t] # "AAAA") =>
              /\ tpc'[t] = "ret"
              /\ nAAAA'[t] = 1
              /\ nA'[t] = nA[t]
              /\ slept'[t] = slept[t]
              /\ a_records'[t] \in AAAAAnswers \cup {<<>>}
        /\ tpc[t] \in {"ret", "lock", "cs", "unlock", "done"} =>
              /\ tpc'[t] \notin {"A", "sleep", "AAAA"}
              /\ nA'[t] <= nA[t]
              /\ nAAAA'[t] <= nAAAA[t]
    ]_vars

\* the fallback answered after NoAnswer on the third A attempt
C5_Witness ==
  \E t \in Tasks :
    /\ tpc[t] = "ret"
    /\ nA[t] = 3
    /\ nAAAA[t] = 1
    /\ slept[t] = 4
    /\ a_records[t] = <<"::1">>

\* C6: a domain whose A lookup fails with a timeout-class error on all 5
\* attempts has slept 8 time units (four delays of 2) when query_dns gives
\* up, and its task adds nothing to the counter, prints nothing and does not
\* fail.
C6_ExhaustedSleepsEight ==
  \A t \in Tasks :
    Exhausted(t) =>
      /\ slept[t] = 4 * 2
      /\ recorded[t] = 0
      /\ logged[t] = 0
      /\ ~failed[t]

\* C7: an exception raised while one domain is processed is swallowed: the
\* task ends, the lock is not kept, main is not ended by it, and the failing
\* domain has left no log line and no increment.
C7_FailureIsolation ==
  \A t \in Tasks :
    failed[t] =>
      /\ tpc[t] = "done"
      /\ lock # t
      /\ mpc \notin {"crash:ValueError", "crash:OSError", "exit1"}
      /\ recorded[t] = 0
      /\ logged[t] = 0

\* C8: process_urls_concurrently has returned, and the report is written,
\* only when every submitted task is in a terminal state: no task is
\* running, queued or holding the lock when the writer reads the counter.
C8_CompletionBarrier ==
  Returned =>
    /\ \A t \in 1..NTasks : tpc[t] = "done"
    /\ Active = {}
    /\ lock = 0

\* the writer is about to run after two tasks that both counted addresses
C8_Witness ==
  /\ mpc = "write"
  /\ NTasks = 2
  /\ recorded[1] > 0
  /\ recorded[2] > 0

InCS(t) == tpc[t] \in {"cs", "unlock"}

\* task t has stored the first but not the last increment of its list
MidList(t) == 0 < recorded[t] /\ recorded[t] < Len(a_records[t])

\* C10: the addresses of one result list are counted in one critical
\* section: at most one task is inside it, that task holds the lock, and
\* between the first and the last increment of one list no other task
\* stores an increment.
C10_SingleCriticalSection ==
  [][ /\ Cardinality({ t \in Tasks : InCS(t) }') <= 1
      /\ \A t \in Tasks : InCS(t)' => lock' = t
      /\ \A t, u \in Tasks :
            (t # u /\ MidList(t)) => recorded'[u] = recorded[u]
    ]_vars

\* one task is between its two increments while another waits for the lock
C10_Witness ==
  \E t, u \in Tasks :
    /\ t # u
    /\ MidList(t)
    /\ InCS(t)
    /\ tpc[u] = "lock"

\* the log lines on the console
LogLines == { l \in BagToSet(console) : l[1] = "log" }

RECURSIVE CountLogs(_)
\* how many log lines were printed, each counted as often as it was printed
CountLogs(S) ==
  IF S = {} THEN 0
  ELSE LET l == CHOOSE x \in S : TRUE
       IN CopiesIn(l, console) + CountLogs(S \ {l})

Written == mpc = "finish" /\ writes >= 1

\* the positions of the report that hold a line for ip
LinesOf(ip) == { i \in 1..Len(report) : report[i][1] = ip }

\* C12: for every snapshot of the frequency table the written report holds
\* exactly one line for each address counted more than 2 times, with that
\* count, and no line for an address counted 2 times or fewer.
C12_ReportFiltering ==
  Written =>
    \A ip \in IPs :
      IF output_counter[ip] > 2
        THEN /\ Cardinality(LinesOf(ip)) = 1
             /\ \A i \in LinesOf(ip) : report[i][2] = output_counter[ip]
        ELSE LinesOf(ip) = {}

\* a snapshot with one address above the threshold, one at it, one absent
C12_Witness ==
  /\ Written
  /\ output_counter["1.1.1.1"] = 3
  /\ output_counter["2.2.2.2"] = 2
  /\ output_counter["::1"] = 0
  /\ report = << <<"1.1.1.1", 3>> >>

\* C13: of any two lines of the written report the earlier one carries a
\* count greater than or equal to the later one's.
C13_ReportOrdering ==
  Written =>
    \A i, j \in 1..Len(report) : i < j => report[i][2] >= report[j][2]

\* three lines were written, the first with a larger count than the last
C13_Witness ==
  /\ Written
  /\ Len(report) = 3
  /\ report[1][2] = 4
  /\ report[3][2] = 3

\* C18: a second run of write_sorted_output with the same snapshot and path
\* leaves the file exactly as the first run left it, no run keeps or appends
\* to what the file held before, and no run changes the snapshot.
C18_WriterIdempotent ==
  [][ (mpc = "write" /\ mpc' = "finish") =>
        /\ output_counter' = output_counter
        /\ keys' = keys
        /\ writes >= 1 => report' = report
        /\ \A i \in 1..Len(report') : report'[i] \notin { OldReport[k] : k \in 1..Len(OldReport) }
    ]_vars

\* the writer has run twice on a snapshot that yields two lines
C18_Witness ==
  /\ mpc = "finish"
  /\ writes = 2
  /\ Len(report) = 2

\* the console holds line m
Said(m) == CopiesIn(Message(m), console) > 0

\* C14: a failure of the report step, be it in making sure that the
\* directory of the output exists or in opening or writing the file, is
\* reported on the console and does not end the run: main goes on to the
\* completion messages and exit status 0.
C14_ReportFailureNonFatal ==
  [][ /\ mpc = "mkdir" => mpc' \in {"mkdir", "pool"}
      /\ (mpc = "write" /\ mpc' # "write") =>
            /\ mpc' = "finish"
            /\ report' # ReportLines(output_counter, keys) => Said("write failed")'
      /\ (mpc = "finish" /\ mpc' # "finish") =>
            mpc' = "exit0" /\ Said("finished")'
    ]_vars

\* C15: when the input file cannot be read the error message is printed,
\* the process exits with a non-zero status and nothing else happens: no
\* lookup, no task, no pool, no directory made, no report written.
C15_FatalLoadFailure ==
  [][ /\ (mpc = "load" /\ mpc' \notin {"load", "mkdir"}) =>
            mpc' = "exit1" /\ Said("read failed")'
      /\ Said("read failed")' =>
            /\ mpc' = "exit1"
            /\ console' = SetToBag({Message("read failed")})
            /\ outdir' = outdir
            /\ report' = report
            /\ writes' = 0
            /\ max_threads' = 0
            /\ \A t \in Tasks : tpc'[t] = "none" /\ nA'[t] = 0 /\ nAAAA'[t] = 0
            /\ \A ip \in IPs : output_counter'[ip] = 0
    ]_vars

\* the run has ended on the unreadable file, the output directory not made
C15_Witness ==
  /\ mpc = "exit1"
  /\ Said("read failed")
  /\ outdir = "missing"
  /\ report = OldReport

\* task t has computed its domain
Cleaned(t) == tpc[t] \notin {"none", "queued"}

\* C16: a line that starts with the lower-case `http://` or `https://`
\* loses exactly that leading scheme, once (a scheme that follows it is
\* kept); any other line, one with an upper-case scheme or with the scheme
\* not at its start included, is returned unchanged.
C16_UrlNormalization ==
  \A t \in 1..NTasks :
    Cleaned(t) =>
      /\ HasPrefix(urls[t], HTTP) => urls[t] = HTTP \o domain[t]
      /\ HasPrefix(urls[t], HTTPS) => urls[t] = HTTPS \o domain[t]
      /\ ~HasPrefix(urls[t], HTTP) /\ ~HasPrefix(urls[t], HTTPS) => domain[t] = urls[t]

\* `http://https://` has lost its first scheme and kept the second
C16_Witness ==
  /\ Cleaned(1)
  /\ urls[1] = HTTP \o HTTPS
  /\ domain[1] = HTTPS

\* C17: while the tasks run, a step leaves the count of an address as it is
\* or raises it by exactly 1, and keeps every key; from the start of the
\* report on, the table is not changed at all.
C17_TableMonotone ==
  [][ /\ \A ip \in IPs :
            output_counter'[ip] \in {output_counter[ip], output_counter[ip] + 1}
      /\ Len(keys') >= Len(keys)
      /\ SubSeq(keys', 1, Len(keys)) = keys
      /\ Returned => output_counter' = output_counter /\ keys' = keys
    ]_vars

\* the report was written from a table in which an address was counted twice
C17_Witness ==
  /\ mpc = "finish"
  /\ output_counter["1.1.1.1"] = 2
  /\ keys = <<"1.1.1.1", "2.2.2.2">>

\* task t is inside query_dns
InQuery(t) == tpc[t] \in {"A", "sleep", "AAAA"}

\* a bound on the steps query_dns has left
Rank(t) ==
  CASE tpc[t] = "A" -> 3 * (5 - nA[t])
    [] tpc[t] = "sleep" -> 3 * (5 - nA[t]) + 1
    [] tpc[t] = "AAAA" -> 3 * (5 - nA[t]) + 2
    [] OTHER -> 0

\* C19: whatever the lookups answer, query_dns makes at most 5 A lookups and
\* at most 1 AAAA lookup, 6 lookups in all, and comes to its end: each of
\* its steps brings it closer to the return.  The AAAA lookup is made only
\* right after an A lookup answered NoAnswer, and the return is all that
\* follows it.
C19_LookupBudget ==
  [][ \A t \in Tasks :
        /\ nA'[t] <= 5
        /\ nAAAA'[t] <= 1
        /\ nA'[t] + nAAAA'[t] <= 6
        /\ (InQuery(t) /\ <<tpc[t], nA[t], nAAAA[t], slept[t]>>
                            # <<tpc'[t], nA'[t], nAAAA'[t], slept'[t]>>) =>
              Rank(t)' < Rank(t) /\ Rank(t)' >= 0
        /\ (tpc'[t] = "AAAA" /\ tpc[t] # "AAAA") =>
              tpc[t] = "A" /\ nA'[t] = nA[t] + 1 /\ nAAAA[t] = 0
        /\ nAAAA'[t] > nAAAA[t] => tpc[t] = "AAAA" /\ tpc'[t] = "ret"
        /\ (tpc[t] = "ret" /\ tpc'[t] # "ret") => tpc'[t] \in {"lock", "done"}
    ]_vars

\* six lookups: NoAnswer on the fifth A attempt, then the fallback
C19_Witness ==
  \E t \in Tasks : tpc[t] = "ret" /\ nA[t] = 5 /\ nAAAA[t] = 1

\* a step of task t can be taken
Runnable(t) == ENABLED (TaskStep(t) \/ EmitLogRaise(t))

\* main has come to its end: a return, sys.exit(1) or an uncaught exception
Ended == mpc \in {"exit0", "exit1", "crash:OSError", "crash:ValueError"}

\* a bound on the steps main has left
MainWork ==
  CASE mpc = "load" -> 7
    [] mpc = "mkdir" -> 6
    [] mpc = "pool" -> 5
    [] mpc = "submit" -> 4
    [] mpc = "wait" -> 3
    [] mpc = "write" -> 2
    [] mpc = "finish" -> 1
    [] OTHER -> 0

\* a bound on the steps task t has left
TaskWork(t) ==
  CASE tpc[t] = "none" -> 27
    [] tpc[t] = "queued" -> 26
    [] InQuery(t) -> 10 + Rank(t)
    [] tpc[t] = "ret" -> 3 + 3 * Len(a_records[t])
    [] tpc[t] = "lock" -> 2 + 3 * Len(a_records[t])
    [] tpc[t] = "cs" -> 2 + 3 * (Len(a_records[t]) - idx[t]) + (3 - stmt[t])
    [] tpc[t] = "unlock" -> 1
    [] OTHER -> 0

RECURSIVE WorkLeft(_)
\* a bound on the steps main and tasks 1..n have left
WorkLeft(n) == IF n = 0 THEN MainWork ELSE WorkLeft(n - 1) + TaskWork(n)

\* under fair scheduling every queued task ends and the pool returns
EveryTaskEnds ==
  /\ \A t \in Tasks : (tpc[t] = "lock") ~> (tpc[t] = "cs")
  /\ \A t \in Tasks : (tpc[t] = "queued") ~> (tpc[t] = "done")
  /\ (mpc = "submit") ~> (mpc = "write")

\* C20: the lock is given back at every exit from the critical section, an
\* exception raised inside it included: it is held only by a task inside
\* the with block.  So no task waits forever: a task waiting for the lock
\* can take it or its holder can take a step, some step can be taken in
\* every state but those where main has ended, and every step uses up some
\* of a bounded amount of work, so that, lookups answering or failing
\* within their lifetime, every task reaches a terminal state and
\* process_urls_concurrently returns.
C20_LockReleasedNoTaskStuck ==
  /\ [](\A t \in Tasks : lock = t => InCS(t))
  /\ [](\A t \in Tasks :
          tpc[t] = "lock" =>
            \/ ENABLED Acquire(t)
            \/ \E u \in Tasks \ {t} : lock = u /\ Runnable(u))
  /\ [](Ended \/ ENABLED NextConsole)
  /\ [](mpc = "wait" /\ ~AllDone => \E u \in Tasks : Runnable(u))
  /\ [][WorkLeft(MaxUrls)' < WorkLeft(MaxUrls) /\ WorkLeft(MaxUrls)' >= 0]_vars

\* a task has left the critical section by an exception and another task
\* is inside it, holding the lock
C20_Witness ==
  \E t, u \in Tasks :
    /\ failed[t]
    /\ tpc[t] = "done"
    /\ tpc[u] = "cs"
    /\ lock = u

====
